---- MODULE Spec2Model ----
(***************************************************************************)
(* Model of the hierarchical event dispatcher EventSpace                   *)
(* (src/unnamed/part_000, lines 339-542).                                  *)
(*                                                                         *)
(* The tree of levels is a function from the full name of a level (the     *)
(* sequence of segment names from the root) to the level's record: its     *)
(* `receivers` (a JavaScript Set, kept as the sequence of its entries in   *)
(* insertion order) and its `children` (a JavaScript Map, kept as the      *)
(* sequence of its keys in insertion order).  The root is the level <<>>.  *)
(*                                                                         *)
(* Listeners are functions supplied by the caller.  A listener may call    *)
(* back into the dispatcher while it runs, so every operation is computed  *)
(* by a recursive operator on an execution state; Set.prototype.forEach    *)
(* and Map.prototype.forEach iterate the LIVE collection: an entry removed *)
(* before its turn is skipped, an entry added during the pass is visited.  *)
(* To follow that, each entry carries, during one operation, a stamp that  *)
(* grows with insertion, and a forEach visits the entries in stamp order,  *)
(* always taking the first live entry whose stamp exceeds the last one     *)
(* visited.                                                                *)
(***************************************************************************)
EXTENDS Naturals, Sequences, FiniteSets, TLC

VARIABLES
    tree,    \* full name of a level -> [receivers, children]
    queue,   \* timers set by setTimeout(item, 0, data), oldest first
    last,    \* the operation performed last, with the invocations it made
    hist,    \* the operations performed before `last`, the latest first
    timers,  \* the id setTimeout returned last: ids count up from 1
    dispatchList   \* DispatchCenter.js: path of a level -> [receiver, children]

vars == <<tree, queue, last, hist, timers, dispatchList>>

-----------------------------------------------------------------------------
(* Bounds of the model *)

\* most registrations (entries of all receivers sets together) in the tree
MaxRegs == 3

\* most timers pending at a time
MaxQueue == 2

\* how deep listeners may call back into the dispatcher
MaxDepth == 2

\* most timers set in one run
MaxTimers == 3

-----------------------------------------------------------------------------
(* Event names: an array of segment names, or a string (kept as the        *)
(* sequence of its characters) that is split on "."                        *)

Arr(segs) == [isArray |-> TRUE, v |-> segs]
Str(chars) == [isArray |-> FALSE, v |-> chars]

RECURSIVE JoinChars(_)
JoinChars(cs) == IF cs = <<>> THEN "" ELSE Head(cs) \o JoinChars(Tail(cs))

\* String.prototype.split('.'): always yields at least one piece
RECURSIVE SplitFrom(_, _)
SplitFrom(cs, cur) ==
    IF cs = <<>> THEN <<JoinChars(cur)>>
    ELSE IF Head(cs) = "." THEN <<JoinChars(cur)>> \o SplitFrom(Tail(cs), <<>>)
    ELSE SplitFrom(Tail(cs), Append(cur, Head(cs)))

split(chars) == SplitFrom(chars, <<>>)

convertEventNameType(eventName) ==
    IF eventName.isArray THEN eventName.v ELSE split(eventName.v)

Data == {1, 2}

-----------------------------------------------------------------------------
(* Listeners.  A handle is a function object: a listener supplied by the   *)
(* caller (once = 0), or the adapter `once` that receiveOnce makes around  *)
(* a listener for the level `at` (once > 0 tells adapters apart).          *)

H(fn) == [fn |-> fn, once |-> 0, at |-> <<>>]
Once(n, fn, at) == [fn |-> fn, once |-> n, at |-> at]

NoListener == [fn |-> "", once |-> 0, at |-> <<>>]   \* `undefined`

\* a value that is not a function, given where a listener is expected:
\* calling it throws a TypeError
NotInvocable == [fn |-> "42", once |-> 0, at |-> <<>>]

\* the listeners callers register
ListenerFns == {"L1", "L2", "K", "R", "S"}
Listeners == {H(fn) : fn \in ListenerFns}

NoCall == [op |-> "none", path |-> <<>>, listener |-> NoListener]

\* what the body of a listener does when it is invoked: L1 and L2 only
\* take the data; K calls cancel("a"); R calls receive("a", L2)
Body(fn) ==
    CASE fn = "K" -> [op |-> "cancel", path |-> <<"a">>, listener |-> NoListener]
      [] fn = "R" -> [op |-> "receive", path |-> <<"a">>, listener |-> H("L2")]
      [] OTHER -> NoCall

\* S answers the data 1 by sending the data 2 to "a" itself, synchronously,
\* and only takes any other data
BodyOn(fn, data) ==
    IF fn = "S"
    THEN IF data = 1
         THEN [op |-> "trigger", path |-> <<"a">>, listener |-> NoListener, data |-> 2]
         ELSE NoCall
    ELSE Body(fn)

-----------------------------------------------------------------------------
(* Helpers on sequences and paths *)

Range(s) == {s[i] : i \in DOMAIN s}

RECURSIVE Without(_, _)
Without(s, x) ==
    IF s = <<>> THEN <<>>
    ELSE IF Head(s) = x THEN Without(Tail(s), x)
    ELSE <<Head(s)>> \o Without(Tail(s), x)

IsPrefix(p, q) == Len(p) <= Len(q) /\ SubSeq(q, 1, Len(p)) = p
IsStrictPrefix(p, q) == Len(p) < Len(q) /\ SubSeq(q, 1, Len(p)) = p

RECURSIVE SumLen(_, _)
SumLen(t, dom) ==
    IF dom = {} THEN 0
    ELSE LET p == CHOOSE x \in dom : TRUE
         IN Len(t[p].receivers) + SumLen(t, dom \ {p})

\* registrations in the whole tree
RegCount(t) == SumLen(t, DOMAIN t)

NewLevel == [receivers |-> <<>>, children |-> <<>>]

-----------------------------------------------------------------------------
(* The execution state of one operation: the tree with stamped entries,    *)
(* the next stamp, the invocations made so far, the timers set so far, and *)
(* whether a listener's call was cut off at the depth bound, and whether   *)
(* an exception has been thrown: it ends the operation where it stands.    *)

Stamped(seq) == [i \in 1..Len(seq) |-> [v |-> seq[i], s |-> i]]
Unstamped(seq) == [i \in 1..Len(seq) |-> seq[i].v]

Lift(t) ==
    [p \in DOMAIN t |->
        [receivers |-> Stamped(t[p].receivers), children |-> Stamped(t[p].children)]]

Lower(t) ==
    [p \in DOMAIN t |->
        [receivers |-> Unstamped(t[p].receivers), children |-> Unstamped(t[p].children)]]

Begin(t, q, n) ==
    [tree |-> Lift(t), ctr |-> RegCount(t) + Cardinality(DOMAIN t) + 1,
     log |-> <<>>, queue |-> q, timers |-> n, cut |-> FALSE, thrown |-> FALSE]

Values(entries) == {entries[i].v : i \in DOMAIN entries}

RECURSIVE WithoutValue(_, _)
WithoutValue(entries, x) ==
    IF entries = <<>> THEN <<>>
    ELSE IF Head(entries).v = x THEN WithoutValue(Tail(entries), x)
    ELSE <<Head(entries)>> \o WithoutValue(Tail(entries), x)

\* the first entry whose stamp exceeds cursor: where a live forEach goes next
NextEntry(entries, cursor) ==
    LET pending == {i \in DOMAIN entries : entries[i].s > cursor}
    IN IF pending = {} THEN 0
       ELSE CHOOSE i \in pending : \A j \in pending : i <= j

-----------------------------------------------------------------------------
(* getChildren (part_000:371-390): the level named by eventName, created   *)
(* with the levels above it when autoCreateLevel, else undefined.          *)

RECURSIVE getChildrenFrom(_, _, _, _)
getChildrenFrom(st, level, names, autoCreateLevel) ==
    IF names = <<>> THEN [found |-> TRUE, level |-> level, st |-> st]
    ELSE
        LET currentName == Head(names)
            currentLevel == Append(level, currentName)
        IN IF currentName \in Values(st.tree[level].children)
           THEN getChildrenFrom(st, currentLevel, Tail(names), autoCreateLevel)
           ELSE IF autoCreateLevel
           THEN getChildrenFrom(
                    [st EXCEPT
                        !.tree = [@ EXCEPT ![level].children =
                                     Append(@, [v |-> currentName, s |-> st.ctr])]
                                 @@ (currentLevel :> [receivers |-> <<>>, children |-> <<>>]),
                        !.ctr = @ + 1],
                    currentLevel, Tail(names), autoCreateLevel)
           ELSE [found |-> FALSE, level |-> <<>>, st |-> st]

getChildren(st, eventName, autoCreateLevel) ==
    getChildrenFrom(st, <<>>, convertEventNameType(eventName), autoCreateLevel)

\* Set.prototype.add: no effect when the value is already an entry
SetAdd(st, level, item) ==
    IF item \in Values(st.tree[level].receivers) THEN st
    ELSE [st EXCEPT !.tree[level].receivers = Append(@, [v |-> item, s |-> st.ctr]),
                    !.ctr = @ + 1]

\* Set.prototype.delete, on a level object that may no longer be in the tree
SetDelete(st, level, item) ==
    IF level \in DOMAIN st.tree
    THEN [st EXCEPT !.tree[level].receivers = WithoutValue(@, item)]
    ELSE st

\* the levels strictly below `level` leave the tree with children.clear()
ChildrenClear(st, level) ==
    [st EXCEPT !.tree =
        [p \in {q \in DOMAIN st.tree : ~IsStrictPrefix(level, q)} |->
            IF p = level THEN [st.tree[p] EXCEPT !.children = <<>>] ELSE st.tree[p]]]

-----------------------------------------------------------------------------
(* Registration and cancellation (part_000:396-450) *)

receive(st, eventName, listener) ==
    LET g == getChildren(st, Arr(convertEventNameType(eventName)), TRUE)
    IN SetAdd(g.st, g.level, listener)

\* the adapter is a new function object: its number is free in tree and queue
FreshOnce(st) ==
    LET used == {h.once : h \in UNION {Values(st.tree[p].receivers) : p \in DOMAIN st.tree}}
                \cup {st.queue[i].h.once : i \in DOMAIN st.queue}
    IN CHOOSE n \in 1..(Cardinality(used) + 1) : n \notin used

\* function once(data) { listener(data); level.receivers.delete(once); }
OnceAdapter(st, eventName, listener) ==
    Once(FreshOnce(st), listener.fn, convertEventNameType(eventName))

receiveOnce(st, eventName, listener) ==
    LET g == getChildren(st, Arr(convertEventNameType(eventName)), TRUE)
    IN SetAdd(g.st, g.level, OnceAdapter(st, eventName, listener))

cancel(st, eventName, listener) ==
    LET g == getChildren(st, Arr(convertEventNameType(eventName)), FALSE)
    IN IF g.found
       THEN IF listener # NoListener
            THEN SetDelete(st, g.level, listener)
            ELSE [st EXCEPT !.tree[g.level].receivers = <<>>]
       ELSE st

\* cancelDescendants as it would be if it emptied the listener sets below
\* the Level and left the Levels themselves in the tree
cancelDescendantsKeepLevels(st, eventName, includeSelf) ==
    LET g == getChildren(st, Arr(convertEventNameType(eventName)), FALSE)
    IN IF g.found
       THEN [st EXCEPT !.tree =
                [p \in DOMAIN st.tree |->
                    IF IsStrictPrefix(g.level, p) \/ (includeSelf /\ p = g.level)
                    THEN [st.tree[p] EXCEPT !.receivers = <<>>]
                    ELSE st.tree[p]]]
       ELSE st

cancelDescendants(st, eventName, includeSelf) ==
    LET g == getChildren(st, Arr(convertEventNameType(eventName)), FALSE)
    IN IF g.found
       THEN ChildrenClear(
                IF includeSelf THEN [st EXCEPT !.tree[g.level].receivers = <<>>] ELSE st,
                g.level)
       ELSE st

RECURSIVE cancelAncestorsFrom(_, _, _, _)
cancelAncestorsFrom(st, level, names, includeSelf) ==
    IF names = <<>>
    THEN IF includeSelf THEN [st EXCEPT !.tree[level].receivers = <<>>] ELSE st
    ELSE LET cleared == [st EXCEPT !.tree[level].receivers = <<>>]
         IN IF Head(names) \in Values(cleared.tree[level].children)
            THEN cancelAncestorsFrom(cleared, Append(level, Head(names)), Tail(names),
                                     includeSelf)
            ELSE cleared

\* cancelAncestors as it would be if it emptied the terminal Level always
cancelAncestorsSelfAlways(st, eventName, includeSelf) ==
    cancelAncestorsFrom(st, <<>>, convertEventNameType(eventName), TRUE)

cancelAncestors(st, eventName, includeSelf) ==
    cancelAncestorsFrom(st, <<>>, convertEventNameType(eventName), includeSelf)

-----------------------------------------------------------------------------
(* Dispatch (part_000:452-488).  `item(data)` runs the listener; the       *)
(* adapter of receiveOnce runs its listener and then deletes itself from   *)
(* the level it was made for.  With asynchronous set, the item is handed   *)
(* to setTimeout instead and runs from the timer queue later.              *)

RECURSIVE Call(_, _, _)
RECURSIVE forEachReceivers(_, _, _, _, _, _)

\* the body of listener fn runs, depth calls deep
RunBody(st, fn, data, depth) ==
    IF BodyOn(fn, data).op = "none" THEN st
    ELSE IF depth >= MaxDepth THEN [st EXCEPT !.cut = TRUE]
    ELSE Call(st, BodyOn(fn, data), depth + 1)

\* item(data), for an item taken from the receivers of `level`
Invoke(st, item, data, level, depth) ==
    LET entered == [st EXCEPT !.log = Append(@, [h |-> item, data |-> data, level |-> level])]
        ran == IF item.fn = NotInvocable.fn
               THEN [entered EXCEPT !.thrown = TRUE]
               ELSE RunBody(entered, item.fn, data, depth)
    IN IF item = NotInvocable THEN [st EXCEPT !.thrown = TRUE]
       ELSE IF item.once = 0 \/ ran.thrown THEN ran
       ELSE SetDelete(ran, item.at, item)

\* setTimeout as it would be if it ran the item at once
SetTimeoutNow(st, item, data, level) ==
    Invoke(st, item, data, level, 0)

SetTimeout(st, item, data, level) ==
    [st EXCEPT !.queue = Append(@, [h |-> item, data |-> data, level |-> level,
                                    id |-> st.timers + 1]),
               !.timers = @ + 1]

\* level.receivers.forEach(item => asynchronous ? setTimeout(item, 0, data) : item(data))
forEachReceivers(st, level, cursor, data, asynchronous, depth) ==
    IF st.thrown \/ level \notin DOMAIN st.tree THEN st
    ELSE LET i == NextEntry(st.tree[level].receivers, cursor)
         IN IF i = 0 THEN st
            ELSE LET e == st.tree[level].receivers[i]
                     done == IF asynchronous
                             THEN SetTimeout(st, e.v, data, level)
                             ELSE Invoke(st, e.v, data, level, depth)
                 IN forEachReceivers(done, level, e.s, data, asynchronous, depth)

\* trigger as it would be if the event also went to the Level above
triggerBubbling(st, eventName, data, asynchronous, depth) ==
    LET g == getChildren(st, Arr(convertEventNameType(eventName)), FALSE)
    IN IF g.found
       THEN LET fired == forEachReceivers(st, g.level, 0, data, asynchronous, depth)
            IN IF g.level = <<>> THEN fired
               ELSE forEachReceivers(fired, SubSeq(g.level, 1, Len(g.level) - 1), 0,
                                     data, asynchronous, depth)
       ELSE st

trigger(st, eventName, data, asynchronous, depth) ==
    LET g == getChildren(st, Arr(convertEventNameType(eventName)), FALSE)
    IN IF g.found
       THEN forEachReceivers(st, g.level, 0, data, asynchronous, depth)
       ELSE st

\* the entries of log at the positions in keep, in order
RECURSIVE SelectLog(_, _)
SelectLog(log, keep) ==
    IF log = <<>> THEN <<>>
    ELSE LET n == Len(log)
             front == SelectLog(SubSeq(log, 1, n - 1), keep)
         IN IF n \in keep THEN Append(front, log[n]) ELSE front

RECURSIVE triggerChildren(_, _, _, _, _)
RECURSIVE forEachChildren(_, _, _, _, _, _)

\* level.children.forEach(triggerChildren)
forEachChildren(st, level, cursor, data, asynchronous, depth) ==
    IF st.thrown \/ level \notin DOMAIN st.tree THEN st
    ELSE LET i == NextEntry(st.tree[level].children, cursor)
         IN IF i = 0 THEN st
            ELSE LET e == st.tree[level].children[i]
                 IN forEachChildren(
                        triggerChildren(st, Append(level, e.v), data, asynchronous, depth),
                        level, e.s, data, asynchronous, depth)

\* triggerChildren as it would be if a Level's children were visited before
\* its own receivers
triggerChildrenPostOrder(st, level, data, asynchronous, depth) ==
    forEachReceivers(forEachChildren(st, level, 0, data, asynchronous, depth),
                     level, 0, data, asynchronous, depth)

triggerChildren(st, level, data, asynchronous, depth) ==
    forEachChildren(forEachReceivers(st, level, 0, data, asynchronous, depth),
                    level, 0, data, asynchronous, depth)

\* triggerDescendants as it would be if a handle were invoked once however
\* many Levels of the subtree hold it
triggerDescendantsUnion(st, eventName, data, includeSelf, asynchronous, depth) ==
    LET g == getChildren(st, Arr(convertEventNameType(eventName)), FALSE)
        own == IF g.found /\ includeSelf
               THEN forEachReceivers(st, g.level, 0, data, asynchronous, depth)
               ELSE st
        all == IF g.found
               THEN forEachChildren(own, g.level, 0, data, asynchronous, depth)
               ELSE st
        first == {i \in DOMAIN all.log :
                     \A j \in 1..(i - 1) : all.log[j].h # all.log[i].h}
    IN [all EXCEPT !.log = SelectLog(all.log, first)]

triggerDescendants(st, eventName, data, includeSelf, asynchronous, depth) ==
    LET g == getChildren(st, Arr(convertEventNameType(eventName)), FALSE)
    IN IF g.found
       THEN forEachChildren(
                IF includeSelf
                THEN forEachReceivers(st, g.level, 0, data, asynchronous, depth)
                ELSE st,
                g.level, 0, data, asynchronous, depth)
       ELSE st

RECURSIVE triggerAncestorsFrom(_, _, _, _, _, _, _)
triggerAncestorsFrom(st, level, names, data, includeSelf, asynchronous, depth) ==
    IF names = <<>>
    THEN IF includeSelf
         THEN forEachReceivers(st, level, 0, data, asynchronous, depth)
         ELSE st
    ELSE LET fired == forEachReceivers(st, level, 0, data, asynchronous, depth)
         IN IF ~fired.thrown /\ Head(names) \in Values(fired.tree[level].children)
            THEN triggerAncestorsFrom(fired, Append(level, Head(names)), Tail(names),
                                      data, includeSelf, asynchronous, depth)
            ELSE fired

triggerAncestors(st, eventName, data, includeSelf, asynchronous, depth) ==
    triggerAncestorsFrom(st, <<>>, convertEventNameType(eventName), data, includeSelf,
                         asynchronous, depth)

-----------------------------------------------------------------------------
(* Queries (part_000:490-542): each yields the state it leaves and the     *)
(* boolean it returns.                                                     *)

\* has as it would be if it resolved the event name with creation enabled
hasCreating(st, eventName, listener) ==
    LET g == getChildren(st, Arr(convertEventNameType(eventName)), TRUE)
    IN [st |-> g.st,
        result |-> IF listener # NoListener
                   THEN listener \in Values(g.st.tree[g.level].receivers)
                   ELSE Len(g.st.tree[g.level].receivers) > 0]

has(st, eventName, listener) ==
    LET g == getChildren(st, Arr(convertEventNameType(eventName)), FALSE)
    IN [st |-> g.st,
        result |-> IF g.found
                   THEN IF listener # NoListener
                        THEN listener \in Values(g.st.tree[g.level].receivers)
                        ELSE Len(g.st.tree[g.level].receivers) > 0
                   ELSE FALSE]

\* the loops return at the first child for which checkChildren is true
RECURSIVE checkChildren(_, _)
checkChildren(st, level) ==
    IF Len(st.tree[level].receivers) > 0 THEN TRUE
    ELSE \E item \in Values(st.tree[level].children) :
             checkChildren(st, Append(level, item))

\* hasDescendants as it would be if it looked one level down only
hasDescendantsShallow(st, eventName, includeSelf) ==
    LET g == getChildren(st, Arr(convertEventNameType(eventName)), FALSE)
    IN [st |-> g.st,
        result |-> IF g.found
                   THEN IF includeSelf /\ Len(g.st.tree[g.level].receivers) > 0 THEN TRUE
                        ELSE \E item \in Values(g.st.tree[g.level].children) :
                                 Len(g.st.tree[Append(g.level, item)].receivers) > 0
                   ELSE FALSE]

hasDescendants(st, eventName, includeSelf) ==
    LET g == getChildren(st, Arr(convertEventNameType(eventName)), FALSE)
    IN [st |-> g.st,
        result |-> IF g.found
                   THEN IF includeSelf /\ Len(g.st.tree[g.level].receivers) > 0 THEN TRUE
                        ELSE \E item \in Values(g.st.tree[g.level].children) :
                                 checkChildren(g.st, Append(g.level, item))
                   ELSE FALSE]

RECURSIVE hasAncestorsFrom(_, _, _, _)
hasAncestorsFrom(st, level, names, includeSelf) ==
    IF names = <<>>
    THEN IF includeSelf THEN Len(st.tree[level].receivers) > 0 ELSE FALSE
    ELSE IF Len(st.tree[level].receivers) > 0 THEN TRUE
    ELSE IF Head(names) \in Values(st.tree[level].children)
    THEN hasAncestorsFrom(st, Append(level, Head(names)), Tail(names), includeSelf)
    ELSE FALSE

hasAncestors(st, eventName, includeSelf) ==
    [st |-> st,
     result |-> hasAncestorsFrom(st, <<>>, convertEventNameType(eventName), includeSelf)]

\* a call a listener's body makes on the dispatcher
Call(st, c, depth) ==
    CASE c.op = "receive" -> receive(st, Arr(c.path), c.listener)
      [] c.op = "cancel" -> cancel(st, Arr(c.path), c.listener)
      [] c.op = "trigger" -> trigger(st, Arr(c.path), c.data, FALSE, depth)
      [] OTHER -> st

-----------------------------------------------------------------------------
(* The state machine: one action per public operation, each a whole call   *)
(* including every listener it runs, and one for a timer coming due.       *)

\* the record of a call: the operation and its arguments, with the event
\* name as given and as converted
CallOf(op, eventName, listener, data, includeSelf, asynchronous) ==
    [op |-> op, path |-> convertEventNameType(eventName), listener |-> listener,
     data |-> data, includeSelf |-> includeSelf, asynchronous |-> asynchronous,
     made |-> NoListener, id |-> 0, name |-> eventName, needSendToCache |-> FALSE,
     result |-> FALSE]

NoOp == [op |-> "init", path |-> <<>>, listener |-> NoListener, data |-> 0,
         includeSelf |-> FALSE, asynchronous |-> FALSE, made |-> NoListener, id |-> 0,
         name |-> Arr(<<>>), needSendToCache |-> FALSE, result |-> FALSE]

\* the registrations <<level, item>> that were in the tree when the operation
\* began and that nothing deleted while it ran (they keep their first stamp)
Kept(st, t) ==
    UNION {{<<p, st.tree[p].receivers[i].v>> :
                i \in {j \in DOMAIN st.tree[p].receivers :
                          st.tree[p].receivers[j].s <= Len(t[p].receivers)}} :
           p \in DOMAIN st.tree \cap DOMAIN t}

\* the operation returns: its effects become the state
Return(st, call) ==
    /\ RegCount(Lower(st.tree)) <= MaxRegs
    /\ Len(st.queue) <= MaxQueue
    /\ st.timers <= MaxTimers
    /\ tree' = Lower(st.tree)
    /\ queue' = st.queue
    /\ timers' = st.timers
    /\ dispatchList' = dispatchList
    /\ last' = [call |-> call, log |-> st.log, cut |-> st.cut, kept |-> Kept(st, tree),
                thrown |-> st.thrown, mid |-> <<>>]

Init ==
    /\ tree = (<<>> :> [receivers |-> <<>>, children |-> <<>>])
    /\ queue = <<>>
    /\ last = [call |-> NoOp, log |-> <<>>, cut |-> FALSE, kept |-> {}, thrown |-> FALSE,
               mid |-> <<>>]
    /\ hist = <<>>
    /\ timers = 0
    /\ dispatchList = (<<>> :> [receiver |-> <<>>, children |-> <<>>])

\* each action draws its arguments from the set it is given: `regs` and
\* `args` are sets of <<eventName, listener>>, `names` of event names
Receive(regs) ==
    \E r \in regs :
        Return(receive(Begin(tree, queue, timers), r[1], r[2]),
               [CallOf("receive", r[1], r[2], 0, FALSE, FALSE) EXCEPT !.made = r[2]])

ReceiveOnce(regs) ==
    \E r \in regs :
        Return(receiveOnce(Begin(tree, queue, timers), r[1], r[2]),
               [CallOf("receiveOnce", r[1], r[2], 0, FALSE, FALSE) EXCEPT
                   !.made = OnceAdapter(Begin(tree, queue, timers), r[1], r[2])])

Cancel(args) ==
    \E r \in args :
        Return(cancel(Begin(tree, queue, timers), r[1], r[2]),
               CallOf("cancel", r[1], r[2], 0, FALSE, FALSE))

CancelDescendants(names) ==
    \E e \in names, includeSelf \in BOOLEAN :
        Return(cancelDescendants(Begin(tree, queue, timers), e, includeSelf),
               CallOf("cancelDescendants", e, NoListener, 0, includeSelf, FALSE))

CancelAncestors(names) ==
    \E e \in names, includeSelf \in BOOLEAN :
        Return(cancelAncestors(Begin(tree, queue, timers), e, includeSelf),
               CallOf("cancelAncestors", e, NoListener, 0, includeSelf, FALSE))

Trigger(names, data, modes) ==
    \E e \in names, d \in data, asynchronous \in modes :
        Return(trigger(Begin(tree, queue, timers), e, d, asynchronous, 0),
               CallOf("trigger", e, NoListener, d, FALSE, asynchronous))

TriggerDescendants(names, data, modes) ==
    \E e \in names, d \in data, includeSelf \in BOOLEAN, asynchronous \in modes :
        Return(triggerDescendants(Begin(tree, queue, timers), e, d, includeSelf, asynchronous, 0),
               CallOf("triggerDescendants", e, NoListener, d, includeSelf, asynchronous))

TriggerAncestors(names, data, modes) ==
    \E e \in names, d \in data, includeSelf \in BOOLEAN, asynchronous \in modes :
        Return(triggerAncestors(Begin(tree, queue, timers), e, d, includeSelf, asynchronous, 0),
               CallOf("triggerAncestors", e, NoListener, d, includeSelf, asynchronous))

Has(args) ==
    \E r \in args :
        \E q \in {has(Begin(tree, queue, timers), r[1], r[2])} :
            Return(q.st, [CallOf("has", r[1], r[2], 0, FALSE, FALSE) EXCEPT
                             !.result = q.result])

HasDescendants(names) ==
    \E e \in names, includeSelf \in BOOLEAN :
        \E q \in {hasDescendants(Begin(tree, queue, timers), e, includeSelf)} :
            Return(q.st, [CallOf("hasDescendants", e, NoListener, 0, includeSelf, FALSE)
                             EXCEPT !.result = q.result])

HasAncestors(names) ==
    \E e \in names, includeSelf \in BOOLEAN :
        \E q \in {hasAncestors(Begin(tree, queue, timers), e, includeSelf)} :
            Return(q.st, [CallOf("hasAncestors", e, NoListener, 0, includeSelf, FALSE)
                             EXCEPT !.result = q.result])

\* the timer step as it would be if the item were looked up in the tree again
\* when the timer comes due
TimerResolved ==
    /\ queue # <<>>
    /\ \E st \in {IF Head(queue).level \in DOMAIN tree
                       /\ Head(queue).h \in Range(tree[Head(queue).level].receivers)
                   THEN Invoke(Begin(tree, Tail(queue), timers), Head(queue).h,
                               Head(queue).data, Head(queue).level, 0)
                   ELSE Begin(tree, Tail(queue), timers)} :
           Return(st, [NoOp EXCEPT !.op = "timer", !.listener = Head(queue).h,
                                   !.data = Head(queue).data, !.path = Head(queue).level,
                                   !.id = Head(queue).id])

\* the oldest timer comes due: its item runs with the data it was set with
Timer ==
    /\ queue # <<>>
    /\ \E st \in {Invoke(Begin(tree, Tail(queue), timers), Head(queue).h,
                          Head(queue).data, Head(queue).level, 0)} :
           Return(st, [NoOp EXCEPT !.op = "timer", !.listener = Head(queue).h,
                                   !.data = Head(queue).data, !.path = Head(queue).level,
                                   !.id = Head(queue).id])

\* the history keeps the n latest operations before the one being performed
Keep(n) ==
    hist' = SubSeq(<<last>> \o hist, 1, IF Len(hist) + 1 < n THEN Len(hist) + 1 ELSE n)

-----------------------------------------------------------------------------
(* Exact-node dispatch: registration, cancellation and synchronous send.   *)
(* Every tree the other operations can build is built by these too (a      *)
(* level is made by a registration below it and emptied by a cancel).      *)

Root == Arr(<<>>)
A == Str(<<"a">>)
AB == Str(<<"a", ".", "b">>)
B == Arr(<<"b">>)

SendRegs ==
    { <<A, H("L1")>>, <<A, H("L2")>>, <<A, H("K")>>, <<A, H("R")>>,
      <<AB, H("L1")>>, <<B, H("L1")>>, <<Root, H("L1")>> }

OnceRegs == { <<A, H("L1")>> }

CancelArgs ==
    { <<A, H("L1")>>, <<A, H("L2")>>, <<A, NoListener>>, <<AB, H("L1")>> }

Next ==
    \/ Receive(SendRegs) /\ Keep(0)
    \/ ReceiveOnce(OnceRegs) /\ Keep(0)
    \/ Cancel(CancelArgs) /\ Keep(0)
    \/ CancelDescendants({Root, A}) /\ Keep(0)
    \/ Trigger({Root, A, AB, B}, Data, {FALSE}) /\ Keep(0)

Spec == Init /\ [][Next]_vars

-----------------------------------------------------------------------------
(* Properties of exact-node dispatch *)

\* how many times the operation invoked item h
Invoked(log, h) == Cardinality({i \in DOMAIN log : log[i].h = h})

ReceiversAt(t, p) == IF p \in DOMAIN t THEN Range(t[p].receivers) ELSE {}

IsSend(call) == call.op = "trigger" /\ ~call.asynchronous

\* C1: register(P, L) followed immediately by a synchronous send(P, D)
\* invokes L exactly once, with D, whatever the other listeners at P do.
C1_RegisterThenSendInvokesOnce ==
    [][ (last.call.op = "receive" /\ IsSend(last'.call)
            /\ last'.call.path = last.call.path)
        => /\ Invoked(last'.log, last.call.listener) = 1
           /\ \A i \in DOMAIN last'.log :
                  last'.log[i].h = last.call.listener
                      => last'.log[i].data = last'.call.data ]_vars

\* C2: a synchronous send(P, D) invokes only items taken from the listener
\* set of the Level at P: each was in that set when the send began or was
\* registered at P during the send; no listener registered only at other
\* paths is invoked.
C2_ExactNodeIsolation ==
    [][ IsSend(last'.call)
        => \A i \in DOMAIN last'.log :
              /\ last'.log[i].level = last'.call.path
              /\ last'.log[i].data = last'.call.data
              /\ last'.log[i].h \in ReceiversAt(tree, last'.call.path)
                                    \cup ReceiversAt(tree', last'.call.path) ]_vars

\* a send to "a" has invoked a listener while L1, registered at the root
\* and at "a.b" but not at "a", was not invoked
C2_Witness ==
    /\ IsSend(last.call) /\ last.call.path = <<"a">>
    /\ last.log # <<>>
    /\ H("L1") \in ReceiversAt(tree, <<>>) \cap ReceiversAt(tree, <<"a", "b">>)
    /\ H("L1") \notin ReceiversAt(tree, <<"a">>)
    /\ Invoked(last.log, H("L1")) = 0

\* C6: cancel(P, L) followed by send(P, D) does not invoke L (unless the
\* send itself registers L at P again), while every other listener
\* registered at P is still invoked exactly once; the cancel
\* leaves every other Level's listener set (the same handle at other paths
\* included) and every children mapping unchanged.
C6_CancelThenSend ==
    [][ /\ (last'.call.op = "cancel" /\ last'.call.listener # NoListener)
            => /\ DOMAIN tree' = DOMAIN tree
               /\ \A p \in DOMAIN tree :
                      /\ tree'[p].children = tree[p].children
                      /\ p # last'.call.path => tree'[p].receivers = tree[p].receivers
        /\ (last.call.op = "cancel" /\ last.call.listener # NoListener
                /\ IsSend(last'.call) /\ last'.call.path = last.call.path)
            => /\ \/ Invoked(last'.log, last.call.listener) = 0
                  \/ last.call.listener \in ReceiversAt(tree', last.call.path)
               /\ \A h \in ReceiversAt(tree, last.call.path) :
                      Invoked(last'.log, h) = 1 ]_vars

-----------------------------------------------------------------------------
(* Repeated registration and one-shot registration at one path, with the   *)
(* two operations before the latest kept in the history.                   *)

RepeatRegs == { <<A, H("K")>>, <<A, H("L1")>>, <<A, H("L2")>> }

NextRepeat ==
    \/ Receive(RepeatRegs) /\ Keep(2)
    \/ ReceiveOnce(OnceRegs) /\ Keep(2)
    \/ Cancel({ <<A, H("L1")>> }) /\ Keep(2)
    \/ Trigger({A}, Data, {FALSE}) /\ Keep(2)

SpecRepeat == Init /\ [][NextRepeat]_vars

\* C8: after registerOnce(P, L), send(P, D1) and send(P, D2), the one-shot
\* registration of L has been invoked exactly once in total, with D1: the
\* first send invokes it and leaves it out of P's listener set, the second
\* does not invoke it.
C8_OnceThenTwoSends ==
    [][ /\ (last.call.op = "receiveOnce" /\ IsSend(last'.call)
                /\ last'.call.path = last.call.path)
            => /\ Invoked(last'.log, last.call.made) = 1
               /\ \A i \in DOMAIN last'.log :
                      last'.log[i].h = last.call.made
                          => last'.log[i].data = last'.call.data
               /\ last.call.made \notin ReceiversAt(tree', last.call.path)
        /\ (Len(hist') = 2 /\ hist'[2].call.op = "receiveOnce"
                /\ IsSend(hist'[1].call) /\ IsSend(last'.call)
                /\ hist'[1].call.path = hist'[2].call.path
                /\ last'.call.path = hist'[2].call.path)
            => /\ Invoked(hist'[1].log \o last'.log, hist'[2].call.made) = 1
               /\ Invoked(last'.log, hist'[2].call.made) = 0 ]_vars

\* C9: register(P, L) performed twice leaves P's listener set and its count
\* as after one registration, and the send(P, D) that follows invokes L
\* exactly once.
C9_RegisterIdempotent ==
    [][ /\ (last.call.op = "receive" /\ last'.call = last.call)
            => tree' = tree
        /\ (Len(hist') = 2 /\ hist'[2].call.op = "receive"
                /\ hist'[1].call = hist'[2].call
                /\ IsSend(last'.call) /\ last'.call.path = hist'[1].call.path)
            => /\ Invoked(last'.log, hist'[1].call.listener) = 1
               /\ Cardinality({i \in 1..Len(tree[last'.call.path].receivers) :
                      tree[last'.call.path].receivers[i] = hist'[1].call.listener}) = 1 ]_vars

-----------------------------------------------------------------------------
(* Pruning a subtree and registering below it again, with the three        *)
(* operations before the latest kept in the history.                       *)

PruneRegs == { <<A, H("L2")>>, <<A, H("R")>>, <<AB, H("L1")>> }

NextPrune ==
    \/ Receive(PruneRegs) /\ Keep(3)
    \/ CancelDescendants({Root, A}) /\ Keep(3)
    \/ Trigger({A, AB}, {1}, {FALSE}) /\ Keep(3)

SpecPrune == Init /\ [][NextPrune]_vars

IsChildOf(q, p) == Len(q) = Len(p) + 1 /\ IsPrefix(p, q)

IsPrune(call) == call.op = "cancelDescendants" /\ ~call.includeSelf

\* C7: cancelDescendants(P, includeSelf = false) keeps P's own listeners and
\* drops every Level below P; a register(P.x, L2) after it makes the Level
\* at P.x anew, holding L2 alone and no children; and the send(P.x, D) that
\* follows invokes L2, once and first, and no listener registered at or
\* below P.x before the cancelDescendants: whatever else it invokes was
\* registered at P.x while the send ran.
C7_PruneThenRegister ==
    [][ /\ (IsPrune(last'.call) /\ last'.call.path \in DOMAIN tree)
            => /\ tree'[last'.call.path].receivers = tree[last'.call.path].receivers
               /\ \A q \in DOMAIN tree' : ~IsStrictPrefix(last'.call.path, q)
        /\ (IsPrune(last.call) /\ last'.call.op = "receive"
                /\ IsChildOf(last'.call.path, last.call.path))
            => tree'[last'.call.path] =
                   [receivers |-> <<last'.call.listener>>, children |-> <<>>]
        /\ (Len(hist') >= 2 /\ IsPrune(hist'[2].call)
                /\ hist'[1].call.op = "receive"
                /\ IsChildOf(hist'[1].call.path, hist'[2].call.path)
                /\ IsSend(last'.call) /\ last'.call.path = hist'[1].call.path)
            => /\ Invoked(last'.log, hist'[1].call.listener) = 1
               /\ last'.log[1] = [h |-> hist'[1].call.listener,
                                  data |-> last'.call.data,
                                  level |-> last'.call.path]
               /\ \A i \in DOMAIN last'.log :
                      \/ last'.log[i].h = hist'[1].call.listener
                      \/ last'.log[i].h \in ReceiversAt(tree', last'.call.path)
               /\ \A p \in DOMAIN tree' : ~IsStrictPrefix(last'.call.path, p) ]_vars

\* L1 was registered at "a.b", cancelDescendants("a", false) dropped that
\* Level, L1 was registered at "a.b" afresh while L2 stayed at "a", and the
\* send to "a.b" invoked L1 alone
C7_Witness ==
    /\ Len(hist) = 3
    /\ hist[3].call.op = "receive" /\ hist[3].call.path = <<"a", "b">>
    /\ IsPrune(hist[2].call) /\ hist[2].call.path = <<"a">>
    /\ hist[1].call.op = "receive" /\ hist[1].call.path = <<"a", "b">>
    /\ IsSend(last.call) /\ last.call.path = <<"a", "b">>
    /\ Len(last.log) = 1 /\ last.log[1].h = H("L1")
    /\ H("L2") \in ReceiversAt(tree, <<"a">>)

-----------------------------------------------------------------------------
(* Walks over the tree: synchronous sends to a subtree and along a path.   *)

AC == Str(<<"a", ".", "c">>)

WalkRegs ==
    { <<Root, H("L1")>>, <<A, H("L1")>>, <<A, H("K")>>, <<A, H("R")>>,
      <<AB, H("L1")>>, <<AB, H("L2")>>, <<AC, H("L2")>> }

NextWalk ==
    \/ Receive(WalkRegs) /\ Keep(0)
    \/ TriggerDescendants({Root, A, B}, Data, {FALSE}) /\ Keep(0)
    \/ TriggerAncestors({A, AB, B}, Data, {FALSE}) /\ Keep(0)

SpecWalk == Init /\ [][NextWalk]_vars

\* the Levels of tree t at or below path p
Subtree(t, p) == {q \in DOMAIN t : IsPrefix(p, q)}

\* the Levels of tree t on the way from the root to path p
PathTo(t, p) == {q \in DOMAIN t : IsPrefix(q, p)}

\* how many times the operation invoked item h for the Level at p
InvokedAt(log, h, p) ==
    Cardinality({i \in DOMAIN log : log[i].h = h /\ log[i].level = p})

IsSendDescendants(call) ==
    call.op = "triggerDescendants" /\ call.includeSelf /\ ~call.asynchronous

IsSendAncestors(call) ==
    call.op = "triggerAncestors" /\ call.includeSelf /\ ~call.asynchronous

\* the listeners registered in tree t at path p or below it
UnionBelow(t, p) == UNION {ReceiversAt(t, q) : q \in Subtree(t, p)}

C4_AncestorsEachOnce ==
    [][ IsSendAncestors(last'.call)
        => /\ \A q \in PathTo(tree, last'.call.path) :
                  \A h \in ReceiversAt(tree, q) : InvokedAt(last'.log, h, q) = 1
           /\ \A i \in DOMAIN last'.log :
                  /\ last'.log[i].level \in PathTo(tree, last'.call.path)
                  /\ last'.log[i].h \in ReceiversAt(tree, last'.log[i].level)
                                        \cup ReceiversAt(tree', last'.log[i].level) ]_vars

\* where item h stands in the listener set of the Level at p (0: nowhere)
IndexAt(t, p, h) ==
    IF h \in ReceiversAt(t, p)
    THEN CHOOSE i \in DOMAIN t[p].receivers : t[p].receivers[i] = h
    ELSE 0

\* C5: a sendAncestors invokes the listeners of a shorter prefix before
\* those of a longer one, root first; a sendDescendants invokes the
\* listeners of a Level before those of any Level below it; and in every
\* synchronous send the listeners of one Level are invoked in the order of
\* their registration.
C5_DispatchOrder ==
    [][ \A i, j \in DOMAIN last'.log :
          i < j =>
            /\ last'.call.op = "triggerAncestors"
                   => IsPrefix(last'.log[i].level, last'.log[j].level)
            /\ last'.call.op = "triggerDescendants"
                   => ~IsStrictPrefix(last'.log[j].level, last'.log[i].level)
            /\ last'.log[i].level = last'.log[j].level
                   => LET p == last'.log[i].level
                          a == last'.log[i].h
                          b == last'.log[j].h
                      IN /\ (IndexAt(tree, p, a) > 0 /\ IndexAt(tree, p, b) > 0)
                                => IndexAt(tree, p, a) < IndexAt(tree, p, b)
                         /\ (IndexAt(tree', p, a) > 0 /\ IndexAt(tree', p, b) > 0)
                                => IndexAt(tree', p, a) < IndexAt(tree', p, b) ]_vars

\* a sendDescendants from the root has served three Levels, one below the
\* other, and the Level "a" has had two listeners invoked
C5_Witness ==
    /\ last.call.op = "triggerDescendants" /\ last.call.path = <<>>
    /\ Len(last.log) = 3
    /\ last.log[1].level = <<>>
    /\ last.log[2].level = <<"a">>
    /\ last.log[3].level \in {<<"a">>, <<"a", "b">>}

-----------------------------------------------------------------------------
(* Deferred dispatch: the sends hand every item to setTimeout, and the     *)
(* event loop runs each timer that is due, the oldest first.  A timer set  *)
(* with delay 0 is due at once and the loop does not pass a due timer by:  *)
(* the timer step is weakly fair.                                          *)

DeferredRegs == { <<A, H("L1")>>, <<A, H("K")>>, <<AB, H("L2")>> }

Tick == Timer /\ Keep(0)

NextDeferred ==
    \/ Receive(DeferredRegs) /\ Keep(0)
    \/ Cancel({ <<A, H("L1")>> }) /\ Keep(0)
    \/ Trigger({A}, Data, {TRUE}) /\ Keep(0)
    \/ TriggerDescendants({A}, {1}, {TRUE}) /\ Keep(0)
    \/ TriggerAncestors({AB}, {1}, {TRUE}) /\ Keep(0)
    \/ Tick

SpecDeferred == Init /\ [][NextDeferred]_vars /\ WF_vars(Tick)

\* the Levels a send serves in tree t
Served(t, call) ==
    CASE call.op = "trigger" -> {call.path} \cap DOMAIN t
      [] call.op = "triggerDescendants" ->
            IF call.path \in DOMAIN t
            THEN {q \in DOMAIN t : IF call.includeSelf THEN IsPrefix(call.path, q)
                                   ELSE IsStrictPrefix(call.path, q)}
            ELSE {}
      [] call.op = "triggerAncestors" ->
            {q \in DOMAIN t : IF call.includeSelf \/ call.path \notin DOMAIN t
                              THEN IsPrefix(q, call.path)
                              ELSE IsStrictPrefix(q, call.path)}
      [] OTHER -> {}

TimerIds(q) == {q[i].id : i \in DOMAIN q}

\* C10: a deferred send returns without having invoked a listener: it sets
\* one timer for every listener of the Levels it serves, carrying D; a timer
\* runs in a later step of its own, after the pass that set it has ended,
\* invokes its item once with that data and leaves the queue for good; and
\* every timer that was set eventually runs.
C10_Deferred ==
    /\ [][ /\ last'.call.asynchronous
               => /\ last'.log = <<>>
                  /\ tree' = tree
                  /\ Len(queue') >= Len(queue)
                  /\ SubSeq(queue', 1, Len(queue)) = queue
                  /\ LET added == SubSeq(queue', Len(queue) + 1, Len(queue'))
                     IN /\ {<<added[i].level, added[i].h>> : i \in DOMAIN added}
                              = UNION {{<<q, h>> : h \in ReceiversAt(tree, q)} :
                                          q \in Served(tree, last'.call)}
                        /\ \A i \in DOMAIN added :
                              /\ added[i].data = last'.call.data
                              /\ added[i].id = timers + i
                        /\ timers' = timers + Len(added)
           /\ last'.call.op = "timer"
               => /\ queue # <<>>
                  /\ queue' = Tail(queue)
                  /\ last'.call.id = Head(queue).id
                  /\ last'.log = <<[h |-> Head(queue).h, data |-> Head(queue).data,
                                    level |-> Head(queue).level]>>
                  /\ Head(queue).id \notin TimerIds(queue')
                  /\ timers' = timers
           /\ last'.call.op \notin {"timer", "trigger", "triggerDescendants",
                                    "triggerAncestors"}
               => queue' = queue /\ timers' = timers
           /\ \A i \in DOMAIN queue' : queue'[i].id <= timers'
           /\ \A i, j \in DOMAIN queue' : i < j => queue'[i].id < queue'[j].id ]_vars
    /\ \A k \in 1..MaxTimers :
           (k \in TimerIds(queue)) ~> (last.call.op = "timer" /\ last.call.id = k)

\* the two timers that a deferred send to "a" set for K and L1 have both
\* run, L1 after it was cancelled, and the queue is empty again
C10_Witness ==
    /\ last.call.op = "timer" /\ last.call.id = 2
    /\ last.call.listener = H("L1") /\ last.call.path = <<"a">>
    /\ last.log = <<[h |-> H("L1"), data |-> last.call.data, level |-> <<"a">>]>>
    /\ H("L1") \notin ReceiversAt(tree, <<"a">>)
    /\ queue = <<>>

-----------------------------------------------------------------------------
(* Cancellation between a deferred send and its timers.                    *)

UnhookRegs == { <<A, H("L1")>>, <<AB, H("L2")>> }

NextUnhook ==
    \/ Receive(UnhookRegs) /\ Keep(0)
    \/ Cancel({ <<A, H("L1")>>, <<A, NoListener>> }) /\ Keep(0)
    \/ CancelDescendants({A}) /\ Keep(0)
    \/ CancelAncestors({AB}) /\ Keep(0)
    \/ Trigger({A, AB}, Data, {TRUE}) /\ Keep(0)
    \/ Tick

SpecUnhook == Init /\ [][NextUnhook]_vars

IsCancel(call) == call.op \in {"cancel", "cancelDescendants", "cancelAncestors"}

\* C11: a deferred send(P, D) sets one timer for every listener that is in
\* P's listener set at the call, holding that listener and D; no cancel,
\* cancelDescendants or cancelAncestors touches a timer; and a timer that
\* comes due invokes the listener it holds with the data it holds, whether
\* or not the tree still has that listener or its Level.
C11_CapturedHandle ==
    [][ /\ (last'.call.op = "trigger" /\ last'.call.asynchronous)
            => \A h \in ReceiversAt(tree, last'.call.path) :
                  Cardinality({i \in (Len(queue) + 1)..Len(queue') :
                                  /\ queue'[i].h = h
                                  /\ queue'[i].data = last'.call.data
                                  /\ queue'[i].level = last'.call.path}) = 1
        /\ IsCancel(last'.call) => queue' = queue
        /\ last'.call.op = "timer"
            => /\ queue # <<>>
               /\ last'.log = <<[h |-> Head(queue).h, data |-> Head(queue).data,
                                 level |-> Head(queue).level]>>
               /\ last'.call.data = Head(queue).data ]_vars

\* the timer set for L2 at "a.b" has run and invoked L2 after the Level
\* "a.b" left the tree
C11_Witness ==
    /\ last.call.op = "timer"
    /\ last.call.listener = H("L2") /\ last.call.path = <<"a", "b">>
    /\ last.log = <<[h |-> H("L2"), data |-> last.call.data, level |-> <<"a", "b">>]>>
    /\ <<"a", "b">> \notin DOMAIN tree

-----------------------------------------------------------------------------
(* Iteration of the listener set during one synchronous send *)

\* C12: a synchronous send(P, D) invokes exactly the listeners that were in
\* P's listener set when the send began, each once: a listener added to the
\* set during the pass is not invoked in it, and a listener removed from the
\* set during the pass before its turn is still invoked.
C12_SnapshotIteration ==
    [][ IsSend(last'.call)
        => /\ \A h \in ReceiversAt(tree, last'.call.path) :
                  Invoked(last'.log, h) = 1
           /\ \A i \in DOMAIN last'.log :
                  last'.log[i].h \in ReceiversAt(tree, last'.call.path) ]_vars

-----------------------------------------------------------------------------
(* The empty string as an event name *)

Empty == Str(<<>>)

NextEmpty ==
    \/ Receive({ <<Empty, H("L1")>>, <<Root, H("L2")>>, <<A, H("L1")>> }) /\ Keep(0)
    \/ Cancel({ <<Empty, NoListener>>, <<Root, NoListener>> }) /\ Keep(0)
    \/ Trigger({Empty, Root, A}, Data, {FALSE}) /\ Keep(0)
    \/ TriggerAncestors({Empty, A}, {1}, {FALSE}) /\ Keep(0)

SpecEmpty == Init /\ [][NextEmpty]_vars

\* C13: the empty string names the root, as the empty array does: every
\* operation given "" works on the Level <<>>, register("", L) makes no
\* Level named by the empty segment, and register("", L) followed by
\* send([], D) invokes L.
C13_EmptyStringIsRoot ==
    [][ /\ last'.call.name = Empty => last'.call.path = <<>>
        /\ <<"">> \notin DOMAIN tree'
        /\ (last.call.op = "receive" /\ last.call.name = Empty
                /\ IsSend(last'.call) /\ last'.call.name = Root)
            => Invoked(last'.log, last.call.listener) = 1 ]_vars

-----------------------------------------------------------------------------
(* Registration of a value that is not a function *)

NextInvalid ==
    \/ Receive({ <<A, NotInvocable>>, <<A, H("L1")>>, <<AB, H("L1")>> }) /\ Keep(0)
    \/ ReceiveOnce({ <<A, NotInvocable>>, <<A, H("L2")>> }) /\ Keep(0)
    \/ Trigger({A, AB}, Data, {FALSE}) /\ Keep(0)
    \/ TriggerDescendants({A}, {1}, {FALSE}) /\ Keep(0)
    \/ TriggerAncestors({AB}, {1}, {FALSE}) /\ Keep(0)

SpecInvalid == Init /\ [][NextInvalid]_vars

IsRegistration(call) == call.op \in {"receive", "receiveOnce"}

IsDispatch(call) == call.op \in {"trigger", "triggerDescendants", "triggerAncestors"}

\* C14: a registration given a listener that is not invocable throws and
\* changes nothing, no Level and no listener set; and no send,
\* sendDescendants or sendAncestors throws or stops part-way: each invokes
\* every listener of the Levels it serves.
C14_InvalidListenerRejected ==
    [][ /\ (IsRegistration(last'.call) /\ last'.call.listener = NotInvocable)
            => last'.thrown /\ tree' = tree
        /\ IsDispatch(last'.call)
            => /\ ~last'.thrown
               /\ \A q \in Served(tree, last'.call) :
                      \A h \in ReceiversAt(tree, q) : InvokedAt(last'.log, h, q) = 1 ]_vars

-----------------------------------------------------------------------------
(* DispatchCenter (src/src/DispatchCenter.js).  dispatchList is the tree   *)
(* of DispatchLevel objects under the level 'root', kept as a function     *)
(* from the path of a level to its `receiver` Set and the keys of its      *)
(* `children` Map, both in insertion order.  A receiver is called with     *)
(* (data, path).  The receiver C calls cancel(['__cache__receive', 'a'])   *)
(* when it runs; the others only take their arguments.                     *)

DispatchLevel == [receiver |-> <<>>, children |-> <<>>]

CacheMark == "__cache__receive"

\* the paths given are strings and arrays (anything else makes
\* convertPathType throw)
convertPathType(path) ==
    IF path.isArray THEN path.v ELSE split(path.v)

\* the execution state of one call: the tree, the invocations made so far,
\* whether the call has thrown, and the tree as it was between the two sends
\* of the exported send
CenterBegin(list) == [list |-> list, log |-> <<>>, thrown |-> FALSE, mid |-> list]

RECURSIVE CenterSumLen(_, _)
CenterSumLen(list, dom) ==
    IF dom = {} THEN 0
    ELSE LET p == CHOOSE x \in dom : TRUE
         IN Len(list[p].receiver) + CenterSumLen(list, dom \ {p})

\* path.forEach((item, index) => { ... }) of receive
RECURSIVE DispatchCenter_receiveFrom(_, _, _, _)
DispatchCenter_receiveFrom(st, level, names, receiver) ==
    IF names = <<>> THEN st
    ELSE LET item == Head(names)
             currentLevel == Append(level, item)
             made == IF item \in Range(st.list[level].children) THEN st
                     ELSE [st EXCEPT !.list =
                              [@ EXCEPT ![level].children = Append(@, item)]
                              @@ (currentLevel :> DispatchLevel)]
             added == IF Len(names) = 1 /\ receiver \notin Range(made.list[currentLevel].receiver)
                      THEN [made EXCEPT !.list[currentLevel].receiver = Append(@, receiver)]
                      ELSE made
         IN DispatchCenter_receiveFrom(added, currentLevel, Tail(names), receiver)

DispatchCenter_receive(st, path, receiver) ==
    IF receiver = NotInvocable THEN [st EXCEPT !.thrown = TRUE]
    ELSE DispatchCenter_receiveFrom(st, <<>>, convertPathType(path), receiver)

\* path.some((item, index) => { ... }) of cancel
RECURSIVE DispatchCenter_cancelFrom(_, _, _)
DispatchCenter_cancelFrom(st, level, names) ==
    IF names = <<>> THEN st
    ELSE LET currentLevel == Append(level, Head(names))
         IN IF Head(names) \notin Range(st.list[level].children) THEN st
            ELSE IF Len(names) = 1
            THEN [st EXCEPT !.list =
                     [p \in {q \in DOMAIN st.list : ~IsStrictPrefix(currentLevel, q)} |->
                         IF p = currentLevel THEN DispatchLevel ELSE st.list[p]]]
            ELSE DispatchCenter_cancelFrom(st, currentLevel, Tail(names))

\* cancel as it would be if it cleared the receivers of the level and left
\* the levels below it in place
DispatchCenter_cancelOwn(st, path) ==
    LET p == convertPathType(path)
    IN IF p # <<>> /\ p \in DOMAIN st.list
       THEN [st EXCEPT !.list[p].receiver = <<>>]
       ELSE st

DispatchCenter_cancel(st, path) ==
    DispatchCenter_cancelFrom(st, <<>>, convertPathType(path))

\* getAllChildrenReceiver as it would be if it took the receivers of the
\* target level alone
getOwnReceiver(list, targetLevel) ==
    [i \in 1..Len(list[targetLevel].receiver) |->
        [h |-> list[targetLevel].receiver[i], level |-> targetLevel]]

\* the array of the receivers of targetLevel and of every level below it,
\* each with the level it was taken from
RECURSIVE getAllChildrenReceiver(_, _)
getAllChildrenReceiver(list, targetLevel) ==
    LET RECURSIVE OfChildren(_)
        OfChildren(names) ==
            IF names = <<>> THEN <<>>
            ELSE getAllChildrenReceiver(list, Append(targetLevel, Head(names)))
                 \o OfChildren(Tail(names))
    IN [i \in 1..Len(list[targetLevel].receiver) |->
           [h |-> list[targetLevel].receiver[i], level |-> targetLevel]]
       \o OfChildren(list[targetLevel].children)

\* pathLevel.some((item, index) => { ... }) of send: the target level, none
\* for the empty path and for a path with a missing level
TargetLevel(list, pathLevel) ==
    IF pathLevel # <<>> /\ pathLevel \in DOMAIN list
    THEN [found |-> TRUE, level |-> pathLevel]
    ELSE [found |-> FALSE, level |-> <<>>]

\* item(data, path)
CenterInvoke(st, item, data, path) ==
    LET entered == [st EXCEPT !.log =
                       Append(@, [h |-> item.h, data |-> data, path |-> path,
                                  level |-> item.level])]
    IN IF item.h.fn = "C"
       THEN DispatchCenter_cancel(entered, Arr(<<CacheMark, "a">>))
       ELSE entered

\* receiver.forEach(item => item(data, path)), over the array
RECURSIVE ForEachItem(_, _, _, _)
ForEachItem(st, receiver, data, path) ==
    IF receiver = <<>> THEN st
    ELSE ForEachItem(CenterInvoke(st, Head(receiver), data, path),
                     Tail(receiver), data, path)

DispatchCenter_send(st, path, data) ==
    LET t == TargetLevel(st.list, path)
    IN IF t.found
       THEN ForEachItem(st, getAllChildrenReceiver(st.list, t.level), data, path)
       ELSE st

\* the exported send as it would be if it never sent to the cache
exports_sendOnly(st, path, data, needSendToCache) ==
    LET first == DispatchCenter_send(st, convertPathType(path), data)
    IN [first EXCEPT !.mid = first.list]

\* module.exports.send
exports_send(st, path, data, needSendToCache) ==
    LET p == convertPathType(path)
        first == DispatchCenter_send(st, p, data)
        between == [first EXCEPT !.mid = first.list]
    IN IF needSendToCache
       THEN DispatchCenter_send(between, <<CacheMark>> \o p, data)
       ELSE between

CenterReturn(st, call) ==
    /\ CenterSumLen(st.list, DOMAIN st.list) <= MaxRegs
    /\ dispatchList' = st.list
    /\ UNCHANGED <<tree, queue, timers>>
    /\ last' = [call |-> call, log |-> st.log, cut |-> FALSE, kept |-> {},
                thrown |-> st.thrown, mid |-> st.mid]

CenterReceive(regs) ==
    \E r \in regs :
        CenterReturn(DispatchCenter_receive(CenterBegin(dispatchList), r[1], r[2]),
                     [CallOf("center.receive", r[1], r[2], 0, FALSE, FALSE)
                         EXCEPT !.path = convertPathType(r[1])])

CenterCancel(names) ==
    \E e \in names :
        CenterReturn(DispatchCenter_cancel(CenterBegin(dispatchList), e),
                     [CallOf("center.cancel", e, NoListener, 0, FALSE, FALSE)
                         EXCEPT !.path = convertPathType(e)])

CenterSend(names, data, flags) ==
    \E e \in names, d \in data, needSendToCache \in flags :
        CenterReturn(exports_send(CenterBegin(dispatchList), e, d, needSendToCache),
                     [CallOf("center.send", e, NoListener, d, FALSE, FALSE)
                         EXCEPT !.path = convertPathType(e),
                                !.needSendToCache = needSendToCache])

CA == Arr(<<CacheMark, "a">>)

CenterRegs ==
    { <<A, H("L1")>>, <<A, H("C")>>, <<AB, H("L1")>>, <<CA, H("L2")>>, <<CA, H("C")>> }

NextCenter ==
    \/ CenterReceive(CenterRegs) /\ Keep(0)
    \/ CenterCancel({A}) /\ Keep(0)
    \/ CenterSend({Root, A, AB, CA}, Data, BOOLEAN) /\ Keep(0)

SpecCenter == Init /\ [][NextCenter]_vars

CenterReceiversAt(list, p) == IF p \in DOMAIN list THEN Range(list[p].receiver) ELSE {}

CachePath(p) == <<CacheMark>> \o p

\* how many times the call invoked receiver h, taken from the level at q,
\* with the arguments (d, p)
Delivered(log, h, q, d, p) ==
    Cardinality({i \in DOMAIN log : log[i] = [h |-> h, data |-> d, path |-> p, level |-> q]})

\* C15 as stated: the exported send(path, data) with needSendToCache set
\* invokes every receiver registered at ['__cache__receive', ...path] once,
\* with the same data and the original path; with needSendToCache false it
\* issues no second send.
C15_CacheGetsOriginalPath ==
    [][ last'.call.op = "center.send"
        => /\ last'.call.needSendToCache
               => \A h \in CenterReceiversAt(last'.mid, CachePath(last'.call.path)) :
                      Delivered(last'.log, h, CachePath(last'.call.path),
                                last'.call.data, last'.call.path) = 1
           /\ ~last'.call.needSendToCache
               => \A i \in DOMAIN last'.log : last'.log[i].path = last'.call.path ]_vars

\* C15 amended: after the ordinary send, the exported send(path, data) with
\* needSendToCache set issues a second send to ['__cache__receive', ...path]
\* with the same data; every receiver registered at that path when the
\* second send begins is invoked once for it and receives the same data and
\* the prefixed path ['__cache__receive', ...path], not the original one;
\* with needSendToCache false no second send is issued.
C15_CacheGetsPrefixedPath ==
    [][ last'.call.op = "center.send"
        => /\ \A i \in DOMAIN last'.log :
                  /\ last'.log[i].data = last'.call.data
                  /\ last'.log[i].path \in {last'.call.path, CachePath(last'.call.path)}
                  /\ \A j \in DOMAIN last'.log :
                         (i < j /\ last'.log[i].path = CachePath(last'.call.path))
                             => last'.log[j].path = CachePath(last'.call.path)
           /\ last'.call.needSendToCache
               => \A h \in CenterReceiversAt(last'.mid, CachePath(last'.call.path)) :
                      Delivered(last'.log, h, CachePath(last'.call.path),
                                last'.call.data, CachePath(last'.call.path)) = 1
           /\ ~last'.call.needSendToCache
               => \A i \in DOMAIN last'.log : last'.log[i].path = last'.call.path ]_vars

\* send('a', 1) has invoked L1 of 'a' with the path ['a'] and then L2 of
\* ['__cache__receive', 'a'] with the path ['__cache__receive', 'a']
C15_Witness ==
    /\ last.call.op = "center.send" /\ last.call.needSendToCache
    /\ last.call.path = <<"a">>
    /\ last.log = << [h |-> H("L1"), data |-> last.call.data, path |-> <<"a">>,
                      level |-> <<"a">>],
                     [h |-> H("L2"), data |-> last.call.data,
                      path |-> <<CacheMark, "a">>, level |-> <<CacheMark, "a">>] >>

\* the path resolves for the inner send: it is not empty and every level
\* on it exists
Resolves(list, p) == p # <<>> /\ p \in DOMAIN list

IsInnerSend(call) == call.op = "center.send" /\ ~call.needSendToCache

\* C20 as stated: the inner send(path, data) invokes, with (data, path), the
\* receivers registered at exactly the specified path, as they were before
\* any of them ran; when a segment of path has no level it invokes nothing
\* and creates nothing.
C20_ExactPathOnly ==
    [][ IsInnerSend(last'.call)
        => IF Resolves(dispatchList, last'.call.path)
           THEN /\ \A h \in CenterReceiversAt(dispatchList, last'.call.path) :
                       Delivered(last'.log, h, last'.call.path,
                                 last'.call.data, last'.call.path) = 1
                /\ \A i \in DOMAIN last'.log :
                       last'.log[i].level = last'.call.path
           ELSE last'.log = <<>> /\ dispatchList' = dispatchList ]_vars

\* C20 amended: the inner send(path, data) invokes, with (data, path), the
\* receivers collected into an array before any of them runs: those
\* registered at the specified path and those registered at every level
\* below it, a level's receivers before those of the levels below it and in
\* insertion order within a level, each once for each level that holds it;
\* when a segment of path has no level, or path is empty, it invokes nothing
\* and creates nothing.
C20_PathAndBelow ==
    [][ IsInnerSend(last'.call)
        => IF Resolves(dispatchList, last'.call.path)
           THEN /\ \A q \in {r \in DOMAIN dispatchList : IsPrefix(last'.call.path, r)} :
                       \A h \in CenterReceiversAt(dispatchList, q) :
                           Delivered(last'.log, h, q, last'.call.data, last'.call.path) = 1
                /\ \A i \in DOMAIN last'.log :
                       /\ last'.log[i].data = last'.call.data
                       /\ last'.log[i].path = last'.call.path
                       /\ IsPrefix(last'.call.path, last'.log[i].level)
                       /\ last'.log[i].h \in CenterReceiversAt(dispatchList, last'.log[i].level)
                /\ \A i, j \in DOMAIN last'.log :
                       i < j =>
                         /\ ~IsStrictPrefix(last'.log[j].level, last'.log[i].level)
                         /\ last'.log[i].level = last'.log[j].level
                              => \E m, n \in DOMAIN dispatchList[last'.log[i].level].receiver :
                                    /\ m < n
                                    /\ dispatchList[last'.log[i].level].receiver[m] = last'.log[i].h
                                    /\ dispatchList[last'.log[i].level].receiver[n] = last'.log[j].h
           ELSE last'.log = <<>> /\ dispatchList' = dispatchList ]_vars

\* send('a', 1, false) has invoked L1 twice with (1, ['a']): once for the
\* level 'a' and once for the level 'a.b' below it
C20_Witness ==
    /\ IsInnerSend(last.call) /\ last.call.path = <<"a">>
    /\ Delivered(last.log, H("L1"), <<"a">>, last.call.data, <<"a">>) = 1
    /\ Delivered(last.log, H("L1"), <<"a", "b">>, last.call.data, <<"a">>) = 1

-----------------------------------------------------------------------------
(* What the operations leave alone: every dispatch, query and cancel       *)
(* operation of EventSpace, on paths that exist, that are missing and that *)
(* are missing in part.  R at the root or at "b" makes the level "a" when  *)
(* it is invoked.                                                          *)

FrameRegs ==
    { <<Root, H("R")>>, <<A, H("L1")>>, <<AB, H("L1")>>, <<AC, H("K")>>, <<B, H("L2")>> }

NextFrame ==
    \/ Receive(FrameRegs) /\ Keep(0)
    \/ Cancel({ <<A, NoListener>>, <<AB, H("L1")>>, <<AC, NoListener>> }) /\ Keep(0)
    \/ CancelDescendants({A, AB}) /\ Keep(0)
    \/ CancelAncestors({A, AB, AC}) /\ Keep(0)
    \/ Trigger({Root, A, AB}, {1}, {FALSE}) /\ Keep(0)
    \/ TriggerDescendants({Root, A}, {1}, {FALSE}) /\ Keep(0)
    \/ TriggerAncestors({AB, AC}, {1}, {FALSE}) /\ Keep(0)
    \/ Has({ <<Root, NoListener>>, <<A, NoListener>>, <<AB, H("L1")>>,
             <<AC, NoListener>> }) /\ Keep(0)
    \/ HasDescendants({Root, A, AB}) /\ Keep(0)
    \/ HasAncestors({A, AB, AC}) /\ Keep(0)

SpecFrame == Init /\ [][NextFrame]_vars

DispatchOps == {"trigger", "triggerDescendants", "triggerAncestors"}
QueryOps == {"has", "hasDescendants", "hasAncestors"}
CancelOps == {"cancel", "cancelDescendants", "cancelAncestors"}

Prefixes(p) == {SubSeq(p, 1, n) : n \in 0..Len(p)}

\* the levels the listeners invoked in log make by registering
CreatedByListeners(log) ==
    UNION {Prefixes(Body(log[i].h.fn).path) :
              i \in {j \in DOMAIN log : Body(log[j].h.fn).op = "receive"}}

\* C16: send, sendDescendants, sendAncestors, has, hasDescendants,
\* hasAncestors, cancel, cancelDescendants and cancelAncestors never create
\* a Level: every Level after the call existed before it or was created by
\* a listener the call invoked; the three queries leave every listener set
\* and children mapping unchanged; cancel and cancelDescendants on a path
\* that does not resolve change nothing.
C16_NoLevelCreated ==
    [][ /\ last'.call.op \in DispatchOps \cup QueryOps \cup CancelOps
            => DOMAIN tree' \subseteq DOMAIN tree \cup CreatedByListeners(last'.log)
        /\ last'.call.op \in QueryOps
            => tree' = tree /\ queue' = queue /\ last'.log = <<>>
        /\ (last'.call.op \in {"cancel", "cancelDescendants"}
                /\ last'.call.path \notin DOMAIN tree)
            => tree' = tree ]_vars

\* has("a.c") has been asked while "a" exists and "a.c" does not
C16_Witness ==
    /\ last.call.op = "has"
    /\ last.call.path = <<"a", "c">>
    /\ <<"a">> \in DOMAIN tree
    /\ <<"a", "c">> \notin DOMAIN tree

\* C17: cancelAncestors(P, includeSelf) empties the listener set of the
\* root and of every existing Level on the chain toward P visited before
\* the terminal one, and of P iff includeSelf and P exists; it removes no
\* Level, changes no children mapping, leaves the listener sets of the
\* Levels off the chain unchanged, and with includeSelf = false leaves P's
\* own set unchanged; at a missing segment it stops without error.
C17_CancelAncestorsFrame ==
    [][ last'.call.op = "cancelAncestors"
        => /\ DOMAIN tree' = DOMAIN tree
           /\ ~last'.thrown
           /\ \A p \in DOMAIN tree :
                 /\ tree'[p].children = tree[p].children
                 /\ tree'[p].receivers =
                       IF IsStrictPrefix(p, last'.call.path)
                          \/ (p = last'.call.path /\ last'.call.includeSelf)
                       THEN <<>>
                       ELSE tree[p].receivers ]_vars

\* cancelAncestors("a.b", false) has emptied the root and "a" and left a
\* listener at "a.b" and one off the chain
C17_Witness ==
    /\ last.call.op = "cancelAncestors"
    /\ last.call.path = <<"a", "b">>
    /\ ~last.call.includeSelf
    /\ tree[<<>>].receivers = <<>>
    /\ <<"a", "b">> \in DOMAIN tree /\ tree[<<"a", "b">>].receivers # <<>>
    /\ \E p \in DOMAIN tree : ~IsPrefix(p, <<"a", "b">>) /\ tree[p].receivers # <<>>

\* C18: each query agrees with the dispatch of the same shape: has(P) is
\* true iff a synchronous send(P, D) would invoke at least one listener,
\* hasDescendants(P, s) iff sendDescendants(P, D, s) would, hasAncestors(P,
\* s) iff sendAncestors(P, D, s) would, whether or not P and the segments
\* before it exist; has(P, L) is true iff L is in P's own listener set.
C18_QueryAgreesWithDispatch ==
    [][ /\ (last'.call.op = "has" /\ last'.call.listener = NoListener)
            => (last'.call.result <=>
                  trigger(Begin(tree, queue, timers), last'.call.name, 1, FALSE, 0).log # <<>>)
        /\ (last'.call.op = "has" /\ last'.call.listener # NoListener)
            => (last'.call.result <=>
                  last'.call.listener \in ReceiversAt(tree, last'.call.path))
        /\ last'.call.op = "hasDescendants"
            => (last'.call.result <=>
                  triggerDescendants(Begin(tree, queue, timers), last'.call.name, 1,
                                     last'.call.includeSelf, FALSE, 0).log # <<>>)
        /\ last'.call.op = "hasAncestors"
            => (last'.call.result <=>
                  triggerAncestors(Begin(tree, queue, timers), last'.call.name, 1,
                                   last'.call.includeSelf, FALSE, 0).log # <<>>) ]_vars

\* hasDescendants of the root has answered true while the only listeners
\* are two levels down
C18_Witness ==
    /\ last.call.op = "hasDescendants"
    /\ last.call.path = <<>>
    /\ last.call.result
    /\ \A p \in DOMAIN tree : Len(p) < 2 => tree[p].receivers = <<>>

-----------------------------------------------------------------------------
(* One-shot registrations under re-entrant and deferred sends.  S, invoked *)
(* with the data 1, sends to "a" again before it returns.                  *)

NextOnce ==
    \/ ReceiveOnce({ <<A, H("L1")>>, <<A, H("S")>> }) /\ Keep(0)
    \/ Receive({ <<A, H("L2")>> }) /\ Keep(0)
    \/ Trigger({A}, Data, BOOLEAN) /\ Keep(0)
    \/ Tick

SpecOnce == Init /\ [][NextOnce]_vars

\* C19: a once-registration delivers at most once under every
\* interleaving: the adapter made by registerOnce(P, L) is invoked at most
\* once by any one operation, a send issued while its first invocation is
\* still running included, and an operation never invokes an adapter that
\* the operation before it invoked, two deferred sends to P issued before
\* the first tick included.
C19_OnceAtMostOnce ==
    [][ \A i \in DOMAIN last'.log :
            last'.log[i].h.once > 0
                => /\ Invoked(last'.log, last'.log[i].h) <= 1
                   /\ Invoked(last.log, last'.log[i].h) = 0 ]_vars

-----------------------------------------------------------------------------
(* DispatchCenter cancel: paths that exist, the empty path, and a path     *)
(* with a missing level; receivers above, beside and below the cancelled   *)
(* level and at its '__cache__receive' mirror.                             *)

UnregisterRegs ==
    { <<A, H("L1")>>, <<A, H("C")>>, <<AB, H("L2")>>, <<AC, H("L1")>>, <<CA, H("L2")>> }

MissingPath == Arr(<<"b", "c">>)

NextUnregister ==
    \/ CenterReceive(UnregisterRegs) /\ Keep(0)
    \/ CenterCancel({Root, A, AB, MissingPath}) /\ Keep(0)
    \/ CenterSend({A, AB, AC, CA}, {1}, BOOLEAN) /\ Keep(0)

SpecUnregister == Init /\ [][NextUnregister]_vars

\* the invocations the inner send(path, data) makes on the tree `list`
InnerSendLog(list, path, data) == DispatchCenter_send(CenterBegin(list), path, data).log

\* the invocations in log of receivers taken from levels not at or below p
NotBelow(log, p) ==
    LET Outside(e) == ~IsPrefix(p, e.level)
    IN SelectSeq(log, Outside)

\* the paths a send is tried on after a cancel
ProbePaths ==
    { <<"a">>, <<"a", "b">>, <<"a", "c">>, <<CacheMark>>, <<CacheMark, "a">>,
      <<CacheMark, "a", "b">> }

\* the cancel leaves alone every level that is not at or below the path,
\* and a send to any path invokes from those levels what it invoked before
OthersAsBefore(path) ==
    /\ \A q \in DOMAIN dispatchList :
           ~IsPrefix(path, q) => q \in DOMAIN dispatchList' /\ dispatchList'[q] = dispatchList[q]
    /\ \A q \in ProbePaths :
           InnerSendLog(dispatchList', q, 1) = NotBelow(InnerSendLog(dispatchList, q, 1), path)

====
